---- MODULE Spec2Model ----
(***************************************************************************)
(* mongoose-plugin-cache: the cache-aside layer of createCacheMethods.ts   *)
(* and the hook / static wiring of index.ts, over a redis-like cache and a *)
(* mongoose-like store.                                                    *)
(*                                                                         *)
(* Strings are sequences of one-character strings, so that the template    *)
(* literal of withCachePrefix and toLowerCase are computed.  A JS object   *)
(* used as a map is a sequence of <<key, value>> entries in insertion      *)
(* order (Object.entries order for non-numeric keys).  A JSON text is the  *)
(* sequence of its <<name, value>> members.                                *)
(***************************************************************************)
EXTENDS Integers, Sequences, FiniteSets, TLC

----------------------------------------------------------------------------
(* Bounds *)

\* longest key sequence handed to a read or to clearMany
MaxKeys == 2

\* longest entry list handed to setMany
MaxEntries == 2

\* longest raw key handed to withCachePrefix on its own
MaxKeyLen == 2

----------------------------------------------------------------------------
(* Values *)

\* JS null
Null == [null |-> TRUE]

\* JS undefined where an object is expected (a map without the key)
Undefined == [undefined |-> TRUE]

\* JS undefined where a string is expected (a field that is not there)
Absent == <<"undefined">>

\* what redis answers to a get of a key without an entry
RedisNil == << <<"nil">> >>

\* model.modelName of the model the methods are bound to
name == <<"E", "n", "t", "r", "y">>

KeyA == <<"a">>
KeyB == <<"B">>
KeyS == <<"s">>

\* the values of the primary key in the store
Ids == {KeyA, KeyB}

\* the values the additional key field takes: a value of its own, the text
\* of another record's primary key, or nothing
SlugValues == {KeyS, KeyB, Absent}

\* the raw keys callers pass to reads, set and clear
RawKeys == {KeyA, KeyB, KeyS}

\* the lookup fields of a read: the primary key and the additional key field
LookupFields == {"_id", "slug"}

\* plain-data projections (what toObject() returns) of the records the store
\* may hold: the additional key value of a record is never its own primary key
Objects == {o \in [_id : Ids, slug : SlugValues] : o.slug # o._id}

Range(s) == {s[i] : i \in 1..Len(s)}

SeqsUpTo(S, n) == UNION {[1..k -> S] : k \in 0..n}

----------------------------------------------------------------------------
(* JavaScript helpers *)

\* String(v) as done by a template literal or a property key
String(v) == IF v = Absent THEN <<"u", "n", "d", "e", "f", "i", "n", "e", "d">> ELSE v

LowerMap == ("A" :> "a") @@ ("B" :> "b") @@ ("E" :> "e") @@ ("S" :> "s")

toLowerCase(s) == [i \in 1..Len(s) |-> IF s[i] \in DOMAIN LowerMap THEN LowerMap[s[i]] ELSE s[i]]

\* JSON.stringify of a plain object: members in property order, a member
\* whose value is undefined is left out
JSONstringify(o) ==
  << <<"_id", o._id>> >>
    \o (IF o.slug = Absent THEN <<>> ELSE << <<"slug", o.slug>> >>)

Member(p, n) ==
  LET idx == {i \in 1..Len(p) : p[i][1] = n}
  IN  IF idx = {} THEN Absent ELSE p[CHOOSE i \in idx : \A j \in idx : j <= i][2]

\* a text that is not JSON
Malformed == << <<"{">> >>

\* the empty string
EmptyText == <<>>

\* whether JSON.parse accepts the text: the texts of the model are non-empty
\* lists of <<name, value>> members, Malformed, or the empty string
ValidJSON(p) == p # EmptyText /\ \A i \in 1..Len(p) : Len(p[i]) = 2

\* JSON.parse of a text written by JSONstringify
JSONparse(p) == [_id |-> Member(p, "_id"), slug |-> Member(p, "slug")]

\* a mongoose document: the stored fields plus the virtual getter id
Document(o) == [_id |-> o._id, id |-> String(o._id), slug |-> o.slug]

\* doc.toObject(): the plain projection, without virtuals
toObject(d) == [_id |-> d._id, slug |-> d.slug]

\* obj[k] on an object used as a map
MapGet(m, k) ==
  LET idx == {i \in 1..Len(m) : m[i][1] = String(k)}
  IN  IF idx = {} THEN Undefined ELSE m[CHOOSE i \in idx : TRUE][2]

\* obj[k] = v on an object used as a map: a present key keeps its place
MapPut(m, k, v) ==
  IF \E i \in 1..Len(m) : m[i][1] = String(k)
  THEN [i \in 1..Len(m) |-> IF m[i][1] = String(k) THEN <<String(k), v>> ELSE m[i]]
  ELSE Append(m, <<String(k), v>>)

\* variant of MapSpread: { ...b, ...a }, the first object wins
MapSpread_reversed(a, b) ==
  LET RECURSIVE go(_, _)
      go(m, i) == IF i > Len(a) THEN m ELSE go(MapPut(m, a[i][1], a[i][2]), i + 1)
  IN  go(b, 1)

\* { ...a, ...b }
MapSpread(a, b) ==
  LET RECURSIVE go(_, _)
      go(m, i) == IF i > Len(b) THEN m ELSE go(MapPut(m, b[i][1], b[i][2]), i + 1)
  IN  go(a, 1)

\* o[field] on a document or plain object
Prop(o, field) == IF field \in DOMAIN o THEN o[field] ELSE Absent

\* lodash keyBy(collection, field)
keyBy(coll, field) ==
  LET RECURSIVE go(_, _)
      go(m, i) == IF i > Len(coll) THEN m ELSE go(MapPut(m, Prop(coll[i], field), coll[i]), i + 1)
  IN  go(<<>>, 1)

\* !!v for the values the code tests: objects are truthy, null and undefined
\* are not
Truthy(v) == v # Null /\ v # Undefined

\* item => !!item
FilterNonNull(s) == SelectSeq(s, Truthy)

\* all orders in which a set can be listed
Perms(S) == {s \in [1..Cardinality(S) -> S] : Range(s) = S}

----------------------------------------------------------------------------
(* The cache backend: redis.multi(batch).execAsync() *)

\* one command applied to the cache contents c (a function from the cache
\* keys that have an entry to their string value)
RedisApply(c, cmd) ==
  IF cmd[1] = "set" THEN [k \in DOMAIN c \cup {cmd[2]} |-> IF k = cmd[2] THEN cmd[3] ELSE c[k]]
  ELSE IF cmd[1] = "del" THEN [k \in DOMAIN c \ {cmd[2]} |-> c[k]]
  ELSE c

RedisReply(c, cmd) ==
  IF cmd[1] = "get" THEN (IF cmd[2] \in DOMAIN c THEN c[cmd[2]] ELSE RedisNil)
  ELSE <<"OK">>

\* the whole batch in order: the contents afterwards and the ordered replies
RedisExec(c, batch) ==
  LET RECURSIVE go(_, _, _)
      go(cur, i, replies) ==
        IF i > Len(batch) THEN [cache |-> cur, replies |-> replies]
        ELSE go(RedisApply(cur, batch[i]), i + 1, Append(replies, RedisReply(cur, batch[i])))
  IN  go(c, 1, <<>>)

----------------------------------------------------------------------------
(* The store: model.find({ [field]: { $in: keys } }) *)

\* the documents the query matches
FindMatches(st, keyLookup, keys) == {Document(o) : o \in {r \in st : Prop(Document(r), keyLookup) \in Range(keys)}}

\* the store answers with the matching documents in an order of its choosing
FindResults(st, keyLookup, keys) == Perms(FindMatches(st, keyLookup, keys))

----------------------------------------------------------------------------
(* createCacheMethods(context): context is [enable, additionalCacheKeys,    *)
(* onCacheMiss, onDataMiss], the last two telling whether an observer was   *)
(* handed in.  Every method returns a record of its result and effects.     *)

\* variant of withCachePrefix: the whole cache key is lowercased
withCachePrefix_lowerAll(key) == toLowerCase(name \o <<":">> \o String(key))

\* `${name.toLowerCase()}:${key}`
withCachePrefix(key) == toLowerCase(name) \o <<":">> \o String(key)

\* s without the later occurrences of its elements
Distinct(s) ==
  LET RECURSIVE go(_, _)
      go(acc, i) ==
        IF i > Len(s) THEN acc
        ELSE IF s[i] \in Range(acc) THEN go(acc, i + 1) ELSE go(Append(acc, s[i]), i + 1)
  IN  go(<<>>, 1)

\* keys.forEach(key => { debug(...); if (observer) observer(name, key) }):
\* the keys reported (debug), the observer calls made, and whether the
\* observer threw, which ends the loop at its first call
Report(observer, throws, keys) ==
  IF observer /\ throws /\ keys # <<>>
  THEN [emitted |-> <<keys[1]>>, calls |-> << <<name, keys[1]>> >>, thrown |-> TRUE]
  ELSE [emitted |-> keys,
        calls   |-> IF observer THEN [i \in 1..Len(keys) |-> <<name, keys[i]>>] ELSE <<>>,
        thrown  |-> FALSE]

\* variant of onBatchCacheMiss: a repeated key is reported once
onBatchCacheMiss_distinct(context, keys) ==
  Report(context.onCacheMiss, context.onCacheMissThrows, Distinct(keys))

onBatchCacheMiss(context, keys) ==
  Report(context.onCacheMiss, context.onCacheMissThrows, keys)

onBatchDataMiss(context, keys) ==
  Report(context.onDataMiss, context.onDataMissThrows, keys)

\* the field the store is queried by
KeyLookup(queryKey) == IF queryKey = "id" THEN "_id" ELSE queryKey

\* variant of getManyBy: the documents are returned in the order the store
\* answered in
getManyBy_storeOrder(context, queryKey, keys, docs) ==
  LET valueByKey == keyBy(docs, queryKey)
      missed     == SelectSeq(keys, LAMBDA key : ~Truthy(MapGet(valueByKey, key)))
      report     == onBatchDataMiss(context, missed)
  IN  [result          |-> IF report.thrown THEN <<>>
                           ELSE [i \in 1..Len(keys) |->
                                   IF i > Len(docs) THEN Null ELSE toObject(docs[i])],
       finds           |-> << [field |-> KeyLookup(queryKey), in |-> keys] >>,
       emittedDataMiss |-> report.emitted,
       onDataMissCalls |-> report.calls,
       thrown          |-> report.thrown]

\* variant of getManyBy: a repeated absent key is reported once
getManyBy_reportOnce(context, queryKey, keys, docs) ==
  LET valueByKey == keyBy(docs, queryKey)
      missed     == Distinct(SelectSeq(keys, LAMBDA key : ~Truthy(MapGet(valueByKey, key))))
      report     == onBatchDataMiss(context, missed)
  IN  [result          |-> IF report.thrown THEN <<>>
                           ELSE [i \in 1..Len(keys) |->
                                   IF ~Truthy(MapGet(valueByKey, keys[i])) THEN Null
                                   ELSE toObject(MapGet(valueByKey, keys[i]))],
       finds           |-> << [field |-> KeyLookup(queryKey), in |-> keys] >>,
       emittedDataMiss |-> report.emitted,
       onDataMissCalls |-> report.calls,
       thrown          |-> report.thrown]

\* getManyBy, docs being what model.find answered; an observer that throws
\* ends the call without a result
getManyBy(context, queryKey, keys, docs) ==
  LET valueByKey == keyBy(docs, queryKey)
      missed     == SelectSeq(keys, LAMBDA key : ~Truthy(MapGet(valueByKey, key)))
      report     == onBatchDataMiss(context, missed)
  IN  [result          |-> IF report.thrown THEN <<>>
                           ELSE [i \in 1..Len(keys) |->
                                   IF ~Truthy(MapGet(valueByKey, keys[i])) THEN Null
                                   ELSE toObject(MapGet(valueByKey, keys[i]))],
       finds           |-> << [field |-> KeyLookup(queryKey), in |-> keys] >>,
       emittedDataMiss |-> report.emitted,
       onDataMissCalls |-> report.calls,
       thrown          |-> report.thrown]

\* variant of SetBatch: each operation is put in front of the ones before it
SetBatch_reversed(entries) ==
  LET RECURSIVE go(_, _)
      go(operations, i) ==
        IF i > Len(entries) THEN operations
        ELSE IF ~Truthy(entries[i][2]) THEN go(operations, i + 1)
        ELSE go(<< <<"set", withCachePrefix(entries[i][1]), JSONstringify(entries[i][2])>> >> \o operations, i + 1)
  IN  go(<<>>, 1)

\* the batch cacheSetMany builds from its entries
SetBatch(entries) ==
  LET RECURSIVE go(_, _)
      go(operations, i) ==
        IF i > Len(entries) THEN operations
        ELSE IF ~Truthy(entries[i][2]) THEN go(operations, i + 1)
        ELSE go(Append(operations, <<"set", withCachePrefix(entries[i][1]), JSONstringify(entries[i][2])>>), i + 1)
  IN  go(<<>>, 1)

\* variant of cacheSetMany: every set command goes to redis in a batch of its
\* own
cacheSetMany_perEntry(context, c, entries) ==
  IF ~context.enable THEN [cache |-> c, redis |-> <<>>]
  ELSE [cache |-> RedisExec(c, SetBatch(entries)).cache,
        redis |-> [i \in 1..Len(SetBatch(entries)) |-> <<SetBatch(entries)[i]>>]]

\* variant of cacheSetMany: the enable flag is not looked at
cacheSetMany_always(context, c, entries) ==
  IF Len(SetBatch(entries)) = 0 THEN [cache |-> c, redis |-> <<>>]
  ELSE [cache |-> RedisExec(c, SetBatch(entries)).cache, redis |-> <<SetBatch(entries)>>]

\* cacheSetMany on cache contents c: the contents afterwards and the batches
\* handed to redis.multi
cacheSetMany(context, c, entries) ==
  IF ~context.enable THEN [cache |-> c, redis |-> <<>>]
  ELSE IF Len(SetBatch(entries)) = 0 THEN [cache |-> c, redis |-> <<>>]
  ELSE [cache |-> RedisExec(c, SetBatch(entries)).cache, redis |-> <<SetBatch(entries)>>]

cacheSet(context, c, key, value) == cacheSetMany(context, c, << <<key, value>> >>)

\* if (doc): a reply is parsed unless it is nil or the empty string
TruthyReply(doc) == doc # RedisNil /\ doc # EmptyText

\* whether JSON.parse throws on one of the replies that are parsed
ParseFails(cachedData) ==
  \E index \in 1..Len(cachedData) :
    TruthyReply(cachedData[index]) /\ ~ValidJSON(cachedData[index])

\* cachedKeyValue: the parsed replies of the hits, by input key
CachedKeyValue(keys, cachedData) ==
  LET RECURSIVE go(_, _)
      go(total, index) ==
        IF index > Len(keys) THEN total
        ELSE IF TruthyReply(cachedData[index])
             THEN go(MapPut(total, keys[index], JSONparse(cachedData[index])), index + 1)
             ELSE go(total, index + 1)
  IN  go(<<>>, 1)

\* variant of StoredKeyValue: a resolved record is staged under its
\* additional cache key values only
StoredKeyValue_aliasesOnly(context, storedDataEntries) ==
  LET RECURSIVE alias(_, _, _)
      alias(total, value, j) ==
        IF j > Len(context.additionalCacheKeys) THEN total
        ELSE alias(MapPut(total, Prop(value, context.additionalCacheKeys[j]), value), value, j + 1)
      RECURSIVE go(_, _)
      go(total, i) ==
        IF i > Len(storedDataEntries) THEN total
        ELSE IF Truthy(storedDataEntries[i][2])
             THEN go(alias(total, storedDataEntries[i][2], 1), i + 1)
             ELSE go(total, i + 1)
  IN  go(<<>>, 1)

\* variant of StoredKeyValue: a resolved record is also staged under its
\* slug, declared as an additional cache key or not
StoredKeyValue_withSlug(context, storedDataEntries) ==
  LET RECURSIVE go(_, _)
      go(total, i) ==
        IF i > Len(storedDataEntries) THEN total
        ELSE IF Truthy(storedDataEntries[i][2])
             THEN go(MapPut(MapPut(total, storedDataEntries[i][1], storedDataEntries[i][2]),
                            storedDataEntries[i][2].slug, storedDataEntries[i][2]), i + 1)
             ELSE go(total, i + 1)
  IN  go(<<>>, 1)

\* storedKeyValue: each resolved record under the value of the looked-up
\* field and under the value of every additional cache key field
StoredKeyValue(context, storedDataEntries) ==
  LET RECURSIVE alias(_, _, _)
      alias(total, value, j) ==
        IF j > Len(context.additionalCacheKeys) THEN total
        ELSE alias(MapPut(total, Prop(value, context.additionalCacheKeys[j]), value), value, j + 1)
      RECURSIVE go(_, _)
      go(total, i) ==
        IF i > Len(storedDataEntries) THEN total
        ELSE IF Truthy(storedDataEntries[i][2])
             THEN go(alias(MapPut(total, storedDataEntries[i][1], storedDataEntries[i][2]),
                           storedDataEntries[i][2], 1), i + 1)
             ELSE go(total, i + 1)
  IN  go(<<>>, 1)

\* variant of Respond: the values of the map in its own order
Respond_mapOrder(keys, map) ==
  [i \in 1..Len(keys) |-> IF i <= Len(map) /\ Truthy(map[i][2]) THEN map[i][2] ELSE Null]

\* keys.map(key => map[key] || null)
Respond(keys, map) ==
  [i \in 1..Len(keys) |-> IF Truthy(MapGet(map, keys[i])) THEN MapGet(map, keys[i]) ELSE Null]

\* the keys cacheGetManyBy does not find in the cache contents c (none when
\* it stops at a reply it cannot parse)
MissedKeysFromCache(c, keys) ==
  LET batchGet       == [i \in 1..Len(keys) |-> <<"get", withCachePrefix(keys[i])>>]
      cachedData     == RedisExec(c, batchGet).replies
      cachedKeyValue == CachedKeyValue(keys, cachedData)
  IN  IF ParseFails(cachedData) THEN <<>>
      ELSE SelectSeq(keys, LAMBDA key : ~Truthy(MapGet(cachedKeyValue, key)))

\* what a call of cacheGetManyBy that ended in an exception leaves behind
Rejected(c, redis, finds, resolverKeys, cacheMiss, dataMiss) ==
  [result |-> <<>>, cache |-> c, redis |-> redis, finds |-> finds,
   resolverKeys |-> resolverKeys, storedData |-> <<>>,
   emittedCacheMiss |-> cacheMiss.emitted, onCacheMissCalls |-> cacheMiss.calls,
   emittedDataMiss |-> dataMiss.emitted, onDataMissCalls |-> dataMiss.calls,
   thrown |-> TRUE]

\* the report of a reporter that was not called
NoReport == [emitted |-> <<>>, calls |-> <<>>, thrown |-> FALSE]

\* cacheGetManyBy on cache contents c, docs being what model.find answers to
\* the resolver (when it is called)
cacheGetManyBy(context, c, cacheKey, keys, docs) ==
  IF ~context.enable
  THEN LET r == getManyBy(context, cacheKey, keys, docs)
       IN  [result |-> r.result, cache |-> c, redis |-> <<>>, finds |-> r.finds,
            resolverKeys |-> keys, storedData |-> r.result,
            emittedCacheMiss |-> <<>>, onCacheMissCalls |-> <<>>,
            emittedDataMiss |-> r.emittedDataMiss, onDataMissCalls |-> r.onDataMissCalls,
            thrown |-> r.thrown]
  ELSE
    LET batchGet            == [i \in 1..Len(keys) |-> <<"get", withCachePrefix(keys[i])>>]
        got                 == RedisExec(c, batchGet)
        cachedKeyValue      == CachedKeyValue(keys, got.replies)
        missedKeysFromCache == SelectSeq(keys, LAMBDA key : ~Truthy(MapGet(cachedKeyValue, key)))
    IN  IF ParseFails(got.replies)
        THEN Rejected(got.cache, <<batchGet>>, <<>>, <<>>, NoReport, NoReport)
        ELSE IF Len(missedKeysFromCache) > 0
        THEN LET report            == onBatchCacheMiss(context, missedKeysFromCache)
                 r                 == getManyBy(context, cacheKey, missedKeysFromCache, docs)
                 storedDataEntries == keyBy(FilterNonNull(r.result), cacheKey)
                 storedKeyValue    == StoredKeyValue(context, storedDataEntries)
                 w                 == cacheSetMany(context, got.cache, storedKeyValue)
                 responseKeyValue  == MapSpread(cachedKeyValue, storedKeyValue)
             IN  IF report.thrown
                 THEN Rejected(got.cache, <<batchGet>>, <<>>, <<>>, report, NoReport)
                 ELSE IF r.thrown
                 THEN Rejected(got.cache, <<batchGet>>, r.finds, missedKeysFromCache, report,
                               [emitted |-> r.emittedDataMiss, calls |-> r.onDataMissCalls])
                 ELSE
                 [result |-> Respond(keys, responseKeyValue), cache |-> w.cache,
                  redis |-> <<batchGet>> \o w.redis, finds |-> r.finds,
                  resolverKeys |-> missedKeysFromCache, storedData |-> r.result,
                  emittedCacheMiss |-> report.emitted, onCacheMissCalls |-> report.calls,
                  emittedDataMiss |-> r.emittedDataMiss, onDataMissCalls |-> r.onDataMissCalls,
                  thrown |-> FALSE]
        ELSE [result |-> Respond(keys, cachedKeyValue), cache |-> got.cache,
              redis |-> <<batchGet>>, finds |-> <<>>,
              resolverKeys |-> <<>>, storedData |-> <<>>,
              emittedCacheMiss |-> <<>>, onCacheMissCalls |-> <<>>,
              emittedDataMiss |-> <<>>, onDataMissCalls |-> <<>>,
              thrown |-> FALSE]

\* the keys the resolver is asked for by cacheGetManyBy (none when it is not
\* called)
ResolverKeys(context, c, keys) == IF ~context.enable THEN keys ELSE MissedKeysFromCache(c, keys)

\* variant of cacheGetBy: the key is looked up by the primary key
cacheGetBy_primary(context, c, cacheKey, key, docs) ==
  LET r == cacheGetManyBy(context, c, "_id", <<key>>, docs)
  IN  IF r.thrown THEN r ELSE [r EXCEPT !.result = r.result[1]]

\* (await cacheGetManyBy(cacheKey, [key]))[0]
cacheGetBy(context, c, cacheKey, key, docs) ==
  LET r == cacheGetManyBy(context, c, cacheKey, <<key>>, docs)
  IN  IF r.thrown THEN r ELSE [r EXCEPT !.result = r.result[1]]

cacheGetMany(context, c, keys, docs) == cacheGetManyBy(context, c, "_id", keys, docs)

cacheGet(context, c, key, docs) == cacheGetBy(context, c, "_id", key, docs)

\* variant of cacheClearMany: only the first key is deleted
cacheClearMany_firstOnly(c, keys) ==
  LET batch == [i \in 1..(IF Len(keys) > 0 THEN 1 ELSE 0) |-> <<"del", withCachePrefix(keys[i])>>]
  IN  [cache |-> RedisExec(c, batch).cache, redis |-> <<batch>>]

\* cacheClearMany
cacheClearMany(c, keys) ==
  LET batch == [i \in 1..Len(keys) |-> <<"del", withCachePrefix(keys[i])>>]
  IN  [cache |-> RedisExec(c, batch).cache, redis |-> <<batch>>]

cacheClear(c, key) == cacheClearMany(c, <<key>>)

----------------------------------------------------------------------------
(* createCachePlugin(options): the context handed to createCacheMethods and *)
(* the two post hooks                                                        *)

\* the context the plugin builds from its options
createCachePlugin(options) ==
  [enable              |-> options.enable,
   additionalCacheKeys |-> options.additionalCacheKeys,
   onCacheMiss         |-> options.onCacheMiss,
   onDataMiss          |-> FALSE,
   onCacheMissThrows   |-> options.onCacheMissThrows,
   onDataMissThrows    |-> FALSE]

\* post save / findOneAndUpdate hook; doc is Null when the update matched
\* nothing
onSave(options, c, doc) ==
  IF ~options.enable THEN [cache |-> c, redis |-> <<>>, thrown |-> FALSE]
  ELSE IF doc = Null THEN [cache |-> c, redis |-> <<>>, thrown |-> TRUE]
  ELSE
    LET context == createCachePlugin(options)
        first   == cacheSet(context, c, doc._id, toObject(doc))
        RECURSIVE go(_, _)
        go(acc, j) ==
          IF j > Len(options.additionalCacheKeys) THEN acc
          ELSE LET w == cacheSet(context, acc.cache, Prop(doc, options.additionalCacheKeys[j]), toObject(doc))
               IN  go([cache |-> w.cache, redis |-> acc.redis \o w.redis], j + 1)
        all     == go(first, 1)
    IN  [cache |-> all.cache, redis |-> all.redis, thrown |-> FALSE]

\* variant of onRemove: only the primary-key entry is cleared
onRemove_primaryOnly(options, c, doc) ==
  IF ~options.enable THEN [cache |-> c, redis |-> <<>>, thrown |-> FALSE]
  ELSE IF doc = Null THEN [cache |-> c, redis |-> <<>>, thrown |-> FALSE]
  ELSE [cache |-> cacheClear(c, doc._id).cache, redis |-> cacheClear(c, doc._id).redis,
        thrown |-> FALSE]

\* post findOneAndRemove / findOneAndDelete hook
onRemove(options, c, doc) ==
  IF ~options.enable THEN [cache |-> c, redis |-> <<>>, thrown |-> FALSE]
  ELSE IF doc = Null THEN [cache |-> c, redis |-> <<>>, thrown |-> FALSE]
  ELSE
    LET first == cacheClear(c, doc._id)
        RECURSIVE go(_, _)
        go(acc, j) ==
          IF j > Len(options.additionalCacheKeys) THEN acc
          ELSE LET w == cacheClear(acc.cache, Prop(doc, options.additionalCacheKeys[j]))
               IN  go([cache |-> w.cache, redis |-> acc.redis \o w.redis], j + 1)
        all   == go(first, 1)
    IN  [cache |-> all.cache, redis |-> all.redis, thrown |-> FALSE]

----------------------------------------------------------------------------
(* The read statics of the plugin.  An argument that is a string or an array *)
(* of strings is [array |-> FALSE, value |-> the string] or                  *)
(* [array |-> TRUE, value |-> the sequence of strings].                      *)

\* Array.isArray(key)
IsArray(key) == key.array

\* schema.statics.get
get(context, c, key, docs) ==
  IF IsArray(key) THEN cacheGetMany(context, c, key.value, docs)
  ELSE cacheGet(context, c, key.value, docs)

\* schema.statics.getBy, and schema.statics[`getBy${capitalized}`] with the
\* cacheKey of its closure
getBy(context, c, cacheKey, key, docs) ==
  IF IsArray(key) THEN cacheGetManyBy(context, c, cacheKey, key.value, docs)
  ELSE cacheGetBy(context, c, cacheKey, key.value, docs)

\* schema.statics.getMany
getMany(context, c, keys, docs) == cacheGetMany(context, c, keys.value, docs)

\* schema.statics.getManyBy, and schema.statics[`getBy${pluralize(capitalized)}`]
\* with the cacheKey of its closure
getManyByStatic(context, c, cacheKey, keys, docs) ==
  cacheGetManyBy(context, c, cacheKey, keys.value, docs)

----------------------------------------------------------------------------
(* State *)

VARIABLES
  cfg,    \* options: what the caller configured; viaPlugin: whether the
          \* methods are reached through createCachePlugin's statics and hooks
          \* on a mongoose model, or built directly with createCacheMethods
          \* over a model with a fixed collection (as the unit tests do)
  store,  \* the records of the backing collection (plain projections)
  cache,  \* the redis contents: cache key -> JSON text
  last    \* the last operation: its input, result and effects

vars == <<cfg, store, cache, last>>

\* the options callers configure: both observers are handed in, and neither
\* throws
Options == [enable : BOOLEAN, additionalCacheKeys : {<<>>, <<"slug">>},
            onCacheMiss : {TRUE}, onDataMiss : {TRUE},
            onCacheMissThrows : {FALSE}, onDataMissThrows : {FALSE}]

\* the context the cache methods of this configuration run with
Context == IF cfg.viaPlugin THEN createCachePlugin(cfg.options) ELSE cfg.options

EmptyCache == [k \in {} |-> <<>>]

\* the record of an operation that has no result and no effects
NoOp ==
  [kind |-> "none", field |-> "", keys |-> <<>>, doc |-> Null, result |-> <<>>,
   redis |-> <<>>, finds |-> <<>>, resolverKeys |-> <<>>, storedData |-> <<>>,
   emittedCacheMiss |-> <<>>, onCacheMissCalls |-> <<>>,
   emittedDataMiss |-> <<>>, onDataMissCalls |-> <<>>,
   thrown |-> FALSE, prev |-> <<>>]

\* the store keeps the primary key unique, and the additional key field
\* unique among the records that have it
StoreOk(st) ==
  \A r1, r2 \in st :
    r1 # r2 => /\ r1._id # r2._id
               /\ (r1.slug # Absent => r1.slug # r2.slug)

\* a plugged-in model starts with an empty collection and an empty cache; a
\* model handed to createCacheMethods holds any collection
Init ==
  /\ cfg \in [options : Options, viaPlugin : BOOLEAN]
  /\ store \in {st \in SUBSET Objects : StoreOk(st) /\ (cfg.viaPlugin => st = {})}
  /\ cache = EmptyCache
  /\ last = NoOp

----------------------------------------------------------------------------
(* Operations *)

\* last is a history variable.  An operation starts from a forgotten history,
\* except the read that directly follows a read and asks for the same field
\* and the same keys: it keeps the read before it in prev.  Every sequence of
\* operations on store and cache is still taken.
Idle == last.kind = "none"

Forget ==
  /\ last.kind # "none"
  /\ last' = NoOp
  /\ UNCHANGED <<cfg, store, cache>>

\* what a read keeps of the read before it
Summary(l) == << [l EXCEPT !.prev = <<>>] >>

\* the reads that may start now
ReadInputs ==
  IF Idle THEN LookupFields \X SeqsUpTo(RawKeys, MaxKeys)
  ELSE IF last.kind = "read" /\ last.prev = <<>>
       THEN {<<last.field, last.keys>>}
       ELSE {}

\* Model.getManyBy(cacheKey, keys) / cacheGetManyBy(cacheKey, keys)
GetManyBy ==
  \E input \in ReadInputs :
   LET field == input[1]
       keys  == input[2]
   IN
    \E docs \in FindResults(store, KeyLookup(field), ResolverKeys(Context, cache, keys)) :
      \E out \in {cacheGetManyBy(Context, cache, field, keys, docs)} :
          /\ cache' = out.cache
          /\ last' = [NoOp EXCEPT !.kind = "read", !.field = field, !.keys = keys,
                        !.result = out.result, !.redis = out.redis, !.finds = out.finds,
                        !.resolverKeys = out.resolverKeys, !.storedData = out.storedData,
                        !.emittedCacheMiss = out.emittedCacheMiss,
                        !.onCacheMissCalls = out.onCacheMissCalls,
                        !.emittedDataMiss = out.emittedDataMiss,
                        !.onDataMissCalls = out.onDataMissCalls,
                        !.thrown = out.thrown,
                        !.prev = IF Idle THEN <<>> ELSE Summary(last)]
          /\ UNCHANGED <<cfg, store>>

\* the entries a caller writes through: a current record under one of its
\* keys, or null
SetEntries ==
  {<<k, Null>> : k \in RawKeys}
    \cup {<<r._id, r>> : r \in store}
    \cup {<<r.slug, r>> : r \in {q \in store : q.slug # Absent}}

\* cacheSetMany(entries), a method of createCacheMethods (no static of the
\* plugin reaches it)
SetMany ==
  /\ Idle
  /\ ~cfg.viaPlugin
  /\ \E entries \in SeqsUpTo(SetEntries, MaxEntries) :
       \E out \in {cacheSetMany(Context, cache, entries)} :
           /\ cache' = out.cache
           /\ last' = [NoOp EXCEPT !.kind = "set", !.keys = [i \in 1..Len(entries) |-> entries[i][1]],
                         !.result = [i \in 1..Len(entries) |-> entries[i][2]],
                         !.redis = out.redis]
           /\ UNCHANGED <<cfg, store>>

\* Model.clearMany(keys) / cacheClearMany(keys)
ClearMany ==
  /\ Idle
  /\ \E keys \in SeqsUpTo(RawKeys, MaxKeys) :
       \E out \in {cacheClearMany(cache, keys)} :
           /\ cache' = out.cache
           /\ last' = [NoOp EXCEPT !.kind = "clear", !.keys = keys, !.redis = out.redis]
           /\ UNCHANGED <<cfg, store>>

\* a store write of a plugged-in model, followed by its post hook
RunHook(hookOut, kind, doc) ==
  /\ Idle
  /\ cfg.viaPlugin
  /\ \E out \in {hookOut} :
       /\ cache' = out.cache
       /\ last' = [NoOp EXCEPT !.kind = kind, !.doc = doc, !.redis = out.redis,
                     !.thrown = out.thrown]
  /\ UNCHANGED cfg

\* Model.create(o): the record is stored, then post('save') runs onSave
Create ==
  \E o \in Objects :
    /\ StoreOk(store \cup {o})
    /\ o \notin store
    /\ store' = store \cup {o}
    /\ RunHook(onSave(cfg.options, cache, Document(o)), "save", Document(o))

\* Model.findOneAndUpdate({_id: id}, {$set: {slug}}, {new: returnNew}):
\* the record is replaced, then post('findOneAndUpdate') runs onSave with the
\* document the query returns (the old or the new one, Null without a match)
Update ==
  \E id \in Ids, slug \in SlugValues, returnNew \in BOOLEAN :
    LET old == {r \in store : r._id = id}
        new == [_id |-> id, slug |-> slug]
    IN  IF old = {}
        THEN /\ store' = store
             /\ RunHook(onSave(cfg.options, cache, Null), "update", Null)
        ELSE /\ new \in Objects
             /\ StoreOk((store \ old) \cup {new})
             /\ new \notin old
             /\ store' = (store \ old) \cup {new}
             /\ LET doc == IF returnNew THEN Document(new) ELSE Document(CHOOSE r \in old : TRUE)
                IN  RunHook(onSave(cfg.options, cache, doc), "update", doc)

\* Model.findOneAndRemove / findOneAndDelete({_id: id}): the record is
\* removed, then the post hook runs onRemove with the removed document
Remove ==
  \E id \in Ids :
    LET old == {r \in store : r._id = id}
        doc == IF old = {} THEN Null ELSE Document(CHOOSE r \in old : TRUE)
    IN  /\ store' = store \ old
        /\ RunHook(onRemove(cfg.options, cache, doc), "remove", doc)

Next ==
  \/ GetManyBy
  \/ SetMany
  \/ ClearMany
  \/ Create
  \/ Update
  \/ Remove
  \/ Forget

Spec == Init /\ [][Next]_vars

TypeOK ==
  /\ StoreOk(store)
  /\ store \subseteq Objects
  /\ \A k \in DOMAIN cache : JSONstringify(JSONparse(cache[k])) = cache[k]

----------------------------------------------------------------------------
(* The read statics on their own: a plugged-in model whose callers read     *)
(* through every static the plugin registers                                *)

\* the read statics: getByField and getByFields stand for the statics
\* registered per additional cache key
StaticNames == {"get", "getBy", "getMany", "getManyBy", "getByField", "getByFields"}

\* the cacheKey a static is called with, or has in its closure
CacheKeysOf(static) ==
  IF static \in {"get", "getMany"} THEN {""}
  ELSE IF static \in {"getBy", "getManyBy"} THEN LookupFields
  ELSE Range(cfg.options.additionalCacheKeys)

\* the values callers pass as key: arrays to every static, strings to the
\* ones typed string | Array<string>
ArgValues(static, array) ==
  IF array THEN SeqsUpTo(RawKeys, MaxKeys)
  ELSE IF static \in {"get", "getBy", "getByField"} THEN RawKeys
  ELSE {}

\* the static a call names, run on the current cache
RunStatic(call, docs) ==
  CASE call.static = "get"         -> get(Context, cache, call.key, docs)
    [] call.static = "getBy"       -> getBy(Context, cache, call.cacheKey, call.key, docs)
    [] call.static = "getMany"     -> getMany(Context, cache, call.key, docs)
    [] call.static = "getManyBy"   -> getManyByStatic(Context, cache, call.cacheKey, call.key, docs)
    [] call.static = "getByField"  -> getBy(Context, cache, call.cacheKey, call.key, docs)
    [] call.static = "getByFields" -> getManyByStatic(Context, cache, call.cacheKey, call.key, docs)

\* the field and the keys of the store query a call leads to
QueryField(call) == IF call.static \in {"get", "getMany"} THEN "_id" ELSE call.cacheKey
QueryKeys(call) == IF call.key.array THEN call.key.value ELSE <<call.key.value>>

CallStatic ==
  /\ Idle
  /\ \E static \in StaticNames, array \in BOOLEAN :
      \E cacheKey \in CacheKeysOf(static), value \in ArgValues(static, array) :
       LET call == [static |-> static, cacheKey |-> cacheKey,
                    key |-> [array |-> array, value |-> value]]
       IN
       \E docs \in FindResults(store, KeyLookup(QueryField(call)),
                               ResolverKeys(Context, cache, QueryKeys(call))) :
         \E out \in {RunStatic(call, docs)} :
           /\ cache' = out.cache
           /\ last' = [NoOp EXCEPT !.kind = call.static, !.field = call.cacheKey,
                         !.keys = call.key, !.result = out.result, !.redis = out.redis,
                         !.finds = out.finds, !.resolverKeys = out.resolverKeys,
                         !.storedData = out.storedData,
                         !.emittedCacheMiss = out.emittedCacheMiss,
                         !.onCacheMissCalls = out.onCacheMissCalls,
                         !.emittedDataMiss = out.emittedDataMiss,
                         !.onDataMissCalls = out.onDataMissCalls,
                         !.thrown = out.thrown]
           /\ UNCHANGED <<cfg, store>>

StaticsInit == Init /\ cfg.viaPlugin

StaticsNext ==
  \/ CallStatic
  \/ ClearMany
  \/ Create
  \/ Forget

StaticsSpec == StaticsInit /\ [][StaticsNext]_vars

----------------------------------------------------------------------------
(* Observers that may throw: the cache methods built with createCacheMethods *)
(* over a model with a fixed collection, the observers handed in throwing or *)
(* not                                                                       *)

ObserverOptions ==
  [enable : BOOLEAN, additionalCacheKeys : {<<>>, <<"slug">>},
   onCacheMiss : {TRUE}, onDataMiss : {TRUE},
   onCacheMissThrows : BOOLEAN, onDataMissThrows : BOOLEAN]

ObserverInit ==
  /\ cfg \in [options : ObserverOptions, viaPlugin : {FALSE}]
  /\ store \in {st \in SUBSET Objects : StoreOk(st)}
  /\ cache = EmptyCache
  /\ last = NoOp

ObserverNext ==
  \/ GetManyBy
  \/ SetMany
  \/ ClearMany
  \/ Forget

ObserverSpec == ObserverInit /\ [][ObserverNext]_vars

----------------------------------------------------------------------------
(* A cache that holds texts the methods did not write: the redis server is  *)
(* shared, and cacheGetManyBy parses whatever string it answers             *)

\* another client of the redis server stores a text that is not JSON under a
\* cache key of the model
Corrupt ==
  /\ Idle
  /\ \E k \in RawKeys, text \in {Malformed, EmptyText} :
       cache' = RedisApply(cache, <<"set", withCachePrefix(k), text>>)
  /\ UNCHANGED <<cfg, store, last>>

MalformedInit ==
  /\ cfg \in [options : Options, viaPlugin : {FALSE}]
  /\ store \in {st \in SUBSET Objects : StoreOk(st)}
  /\ cache = EmptyCache
  /\ last = NoOp

MalformedNext ==
  \/ GetManyBy
  \/ Corrupt
  \/ SetMany
  \/ ClearMany
  \/ Forget

MalformedSpec == MalformedInit /\ [][MalformedNext]_vars

----------------------------------------------------------------------------
(* A model without additional cache keys whose callers read by the primary  *)
(* key only: getMany / cacheGetMany, the hooks and clearMany                *)

\* Model.getMany(keys) / cacheGetMany(keys)
GetMany ==
  /\ Idle
  /\ \E keys \in SeqsUpTo(RawKeys, MaxKeys) :
       \E docs \in FindResults(store, "_id", ResolverKeys(Context, cache, keys)) :
         \E out \in {cacheGetMany(Context, cache, keys, docs)} :
           /\ cache' = out.cache
           /\ last' = [NoOp EXCEPT !.kind = "read", !.field = "_id", !.keys = keys,
                         !.result = out.result, !.redis = out.redis, !.finds = out.finds,
                         !.resolverKeys = out.resolverKeys, !.storedData = out.storedData,
                         !.emittedCacheMiss = out.emittedCacheMiss,
                         !.onCacheMissCalls = out.onCacheMissCalls,
                         !.emittedDataMiss = out.emittedDataMiss,
                         !.onDataMissCalls = out.onDataMissCalls,
                         !.thrown = out.thrown]
           /\ UNCHANGED <<cfg, store>>

PrimaryInit == Init /\ cfg.options.additionalCacheKeys = <<>>

PrimaryNext ==
  \/ GetMany
  \/ ClearMany
  \/ Create
  \/ Update
  \/ Remove
  \/ Forget

PrimarySpec == PrimaryInit /\ [][PrimaryNext]_vars

----------------------------------------------------------------------------
(* Calls in flight together.  Every await of cacheGetManyBy, onSave and     *)
(* onRemove is a point where another call runs: redis and the store answer  *)
(* one request at a time, and what a call does between two answers touches  *)
(* nothing but the call itself.  Here last holds the calls in flight.       *)

\* the calls that may be in flight together
Calls == {1, 2}

\* a call that has not started
NoCall ==
  [op |-> "none", pc |-> "idle", field |-> "", keys |-> <<>>, doc |-> Null,
   slot |-> 0, cachedKeyValue |-> <<>>, missed |-> <<>>, storedData |-> <<>>,
   result |-> <<>>, thrown |-> FALSE]

\* no call in flight: cache0 and store0 are the cache and the store as they
\* were when the first of the calls in flight started, log is what the
\* calls did, in the order it happened
NoCalls(c, st) ==
  [kind |-> "calls", calls |-> [p \in Calls |-> NoCall], log |-> <<>>,
   cache0 |-> c, store0 |-> st]

\* one entry of the log
Event(tag, arg) == [tag |-> tag, arg |-> arg]

\* variant of cacheGetManyBy_get: the missed keys are reported before the
\* batched get is sent
cacheGetManyBy_get_reportFirst(context, c, p) ==
  LET batchGet            == [i \in 1..Len(p.keys) |-> <<"get", withCachePrefix(p.keys[i])>>]
      got                 == RedisExec(c, batchGet)
      cachedKeyValue      == CachedKeyValue(p.keys, got.replies)
      missedKeysFromCache == SelectSeq(p.keys, LAMBDA key : ~Truthy(MapGet(cachedKeyValue, key)))
      report              == onBatchCacheMiss(context, missedKeysFromCache)
  IN  IF Len(missedKeysFromCache) > 0
      THEN [call   |-> [p EXCEPT !.pc = "find", !.cachedKeyValue = cachedKeyValue,
                                 !.missed = missedKeysFromCache],
            events |-> [i \in 1..Len(report.emitted) |-> Event("cacheMiss", report.emitted[i])]
                         \o <<Event("get", p.keys)>>]
      ELSE [call   |-> [p EXCEPT !.pc = "done", !.cachedKeyValue = cachedKeyValue,
                                 !.result = Respond(p.keys, cachedKeyValue)],
            events |-> <<Event("get", p.keys), Event("return", <<>>)>>]

\* cacheGetManyBy from its start to the await of the resolver (or to its
\* return when every key is a hit): redis answers the batched get on cache
\* contents c, the hits are parsed and the missed keys reported.  The entries
\* read were written by cacheSetMany, so JSON.parse takes them.
cacheGetManyBy_get(context, c, p) ==
  LET batchGet            == [i \in 1..Len(p.keys) |-> <<"get", withCachePrefix(p.keys[i])>>]
      got                 == RedisExec(c, batchGet)
      cachedKeyValue      == CachedKeyValue(p.keys, got.replies)
      missedKeysFromCache == SelectSeq(p.keys, LAMBDA key : ~Truthy(MapGet(cachedKeyValue, key)))
      report              == onBatchCacheMiss(context, missedKeysFromCache)
  IN  IF Len(missedKeysFromCache) > 0
      THEN [call   |-> [p EXCEPT !.pc = "find", !.cachedKeyValue = cachedKeyValue,
                                 !.missed = missedKeysFromCache],
            events |-> <<Event("get", p.keys)>>
                         \o [i \in 1..Len(report.emitted) |-> Event("cacheMiss", report.emitted[i])]]
      ELSE [call   |-> [p EXCEPT !.pc = "done", !.cachedKeyValue = cachedKeyValue,
                                 !.result = Respond(p.keys, cachedKeyValue)],
            events |-> <<Event("get", p.keys), Event("return", <<>>)>>]

\* getManyBy inside the call: the store answers the query with docs, the
\* keys it did not resolve are reported; a call with caching disabled
\* returns here
cacheGetManyBy_find(context, p, docs) ==
  LET asked == IF context.enable THEN p.missed ELSE p.keys
      r     == getManyBy(context, p.field, asked, docs)
  IN  [call   |-> [p EXCEPT !.pc = IF context.enable THEN "set" ELSE "done",
                            !.storedData = r.result,
                            !.result = IF context.enable THEN <<>> ELSE r.result],
       events |-> <<Event("find", asked)>>
                    \o [i \in 1..Len(r.emittedDataMiss) |-> Event("dataMiss", r.emittedDataMiss[i])]
                    \o (IF context.enable THEN <<>> ELSE <<Event("return", <<>>)>>)]

\* variant of cacheGetManyBy_set: the response is put together from the
\* cache hits alone
cacheGetManyBy_set_hitsOnly(context, c, p) ==
  LET storedDataEntries == keyBy(FilterNonNull(p.storedData), p.field)
      storedKeyValue    == StoredKeyValue(context, storedDataEntries)
      w                 == cacheSetMany(context, c, storedKeyValue)
  IN  [call   |-> [p EXCEPT !.pc = "done", !.result = Respond(p.keys, p.cachedKeyValue)],
       cache  |-> w.cache,
       events |-> [i \in 1..Len(w.redis) |-> Event("set", w.redis[i])]
                    \o <<Event("return", <<>>)>>]

\* cacheGetManyBy from the resolver's answer to its return: the resolved
\* records are staged, redis runs the batch of sets on cache contents c,
\* the response is put together
cacheGetManyBy_set(context, c, p) ==
  LET storedDataEntries == keyBy(FilterNonNull(p.storedData), p.field)
      storedKeyValue    == StoredKeyValue(context, storedDataEntries)
      w                 == cacheSetMany(context, c, storedKeyValue)
      responseKeyValue  == MapSpread(p.cachedKeyValue, storedKeyValue)
  IN  [call   |-> [p EXCEPT !.pc = "done", !.result = Respond(p.keys, responseKeyValue)],
       cache  |-> w.cache,
       events |-> [i \in 1..Len(w.redis) |-> Event("set", w.redis[i])]
                    \o <<Event("return", <<>>)>>]

\* the keys onSave writes and onRemove clears, one awaited call each, in the
\* order of the calls
HookSlots(options, doc) ==
  <<doc._id>> \o [j \in 1..Len(options.additionalCacheKeys) |->
                    Prop(doc, options.additionalCacheKeys[j])]

\* variant of HookStep: the hooks leave the primary-key entry alone
HookStep_aliasesOnly(options, c, p) ==
  LET key == HookSlots(options, p.doc)[p.slot]
      w   == IF p.slot = 1 THEN [cache |-> c, redis |-> <<>>]
             ELSE IF p.op = "remove" THEN cacheClear(c, key)
             ELSE cacheSet(createCachePlugin(options), c, key, toObject(p.doc))
  IN  [call   |-> [p EXCEPT !.slot = p.slot + 1,
                            !.pc = IF p.slot = Len(HookSlots(options, p.doc)) THEN "done" ELSE "slot"],
       cache  |-> w.cache,
       events |-> [i \in 1..Len(w.redis) |-> Event(IF p.op = "remove" THEN "del" ELSE "set", w.redis[i])]]

\* one awaited cacheSet of onSave, or one awaited cacheClear of onRemove
HookStep(options, c, p) ==
  LET key == HookSlots(options, p.doc)[p.slot]
      w   == IF p.op = "remove" THEN cacheClear(c, key)
             ELSE cacheSet(createCachePlugin(options), c, key, toObject(p.doc))
  IN  [call   |-> [p EXCEPT !.slot = p.slot + 1,
                            !.pc = IF p.slot = Len(HookSlots(options, p.doc)) THEN "done" ELSE "slot"],
       cache  |-> w.cache,
       events |-> [i \in 1..Len(w.redis) |-> Event(IF p.op = "remove" THEN "del" ELSE "set", w.redis[i])]]

\* the log with the events of call p added
Logged(p, events) ==
  last.log \o [i \in 1..Len(events) |-> [call |-> p, tag |-> events[i].tag, arg |-> events[i].arg]]

\* a plugged-in model with caching enabled, nothing in flight
CallsInit ==
  /\ cfg \in [options : {o \in Options : o.enable}, viaPlugin : {TRUE}]
  /\ store = {}
  /\ cache = EmptyCache
  /\ last = NoCalls(EmptyCache, {})

\* Model.getManyBy(field, keys) is called with one of the key arrays keysets:
\* with caching enabled the batched get goes out, without it the store query
StartRead(p, keysets) ==
  /\ last.calls[p].pc = "idle"
  /\ \E field \in LookupFields, keys \in keysets :
       last' = [last EXCEPT !.calls[p] =
                  [NoCall EXCEPT !.op = "read", !.field = field, !.keys = keys,
                                 !.pc = IF Context.enable THEN "get" ELSE "find"]]
  /\ UNCHANGED <<cfg, store, cache>>

\* redis answers the batched get of call p
CacheGet(p) ==
  /\ last.calls[p].pc = "get"
  /\ \E out \in {cacheGetManyBy_get(Context, cache, last.calls[p])} :
       last' = [last EXCEPT !.calls[p] = out.call, !.log = Logged(p, out.events)]
  /\ UNCHANGED <<cfg, store, cache>>

\* the store answers the query of call p
StoreFind(p) ==
  /\ last.calls[p].pc = "find"
  /\ \E docs \in FindResults(store, KeyLookup(last.calls[p].field),
                             IF Context.enable THEN last.calls[p].missed ELSE last.calls[p].keys) :
       \E out \in {cacheGetManyBy_find(Context, last.calls[p], docs)} :
         last' = [last EXCEPT !.calls[p] = out.call, !.log = Logged(p, out.events)]
  /\ UNCHANGED <<cfg, store, cache>>

\* redis runs the batch of sets of call p, and the call returns
CacheSet(p) ==
  /\ last.calls[p].pc = "set"
  /\ \E out \in {cacheGetManyBy_set(Context, cache, last.calls[p])} :
       /\ cache' = out.cache
       /\ last' = [last EXCEPT !.calls[p] = out.call, !.log = Logged(p, out.events)]
  /\ UNCHANGED <<cfg, store>>

\* the post hook of a store write starts with the document doc: onSave and
\* onRemove return at once without caching, onRemove also without a
\* document, and onSave throws without one
HookCall(op, doc) ==
  IF ~cfg.options.enable THEN [NoCall EXCEPT !.op = op, !.pc = "done", !.doc = doc]
  ELSE IF doc = Null
  THEN [NoCall EXCEPT !.op = op, !.pc = "done", !.thrown = (op # "remove")]
  ELSE [NoCall EXCEPT !.op = op, !.pc = "slot", !.doc = doc, !.slot = 1]

\* a store write by call p: the store is written and the post hook starts
StartHook(p, op, st, doc) ==
  /\ store' = st
  /\ last' = [last EXCEPT !.calls[p] = HookCall(op, doc),
                          !.log = Logged(p, <<Event("store", <<>>)>>)]
  /\ UNCHANGED <<cfg, cache>>

\* Model.create(o), o one of objects
StartCreate(p, objects) ==
  \E o \in objects :
    /\ last.calls[p].pc = "idle"
    /\ StoreOk(store \cup {o})
    /\ o \notin store
    /\ StartHook(p, "create", store \cup {o}, Document(o))

\* Model.findOneAndUpdate({_id: id}, {$set: {slug}}, {new: returnNew})
StartUpdate(p) ==
  \E id \in Ids, slug \in SlugValues, returnNew \in BOOLEAN :
    LET old == {r \in store : r._id = id}
        new == [_id |-> id, slug |-> slug]
    IN  /\ last.calls[p].pc = "idle"
        /\ IF old = {}
           THEN StartHook(p, "update", store, Null)
           ELSE /\ new \in Objects
                /\ StoreOk((store \ old) \cup {new})
                /\ new \notin old
                /\ StartHook(p, "update", (store \ old) \cup {new},
                             IF returnNew THEN Document(new) ELSE Document(CHOOSE r \in old : TRUE))

\* Model.findOneAndRemove / findOneAndDelete({_id: id})
StartRemove(p) ==
  \E id \in Ids :
    LET old == {r \in store : r._id = id}
    IN  /\ last.calls[p].pc = "idle"
        /\ StartHook(p, "remove", store \ old,
                     IF old = {} THEN Null ELSE Document(CHOOSE r \in old : TRUE))

\* redis runs the next cacheSet of onSave or cacheClear of onRemove of call p
HookRun(p) ==
  /\ last.calls[p].pc = "slot"
  /\ \E out \in {HookStep(cfg.options, cache, last.calls[p])} :
       /\ cache' = out.cache
       /\ last' = [last EXCEPT !.calls[p] = out.call, !.log = Logged(p, out.events)]
  /\ UNCHANGED <<cfg, store>>

\* whether every call that started has returned
AllReturned == \A p \in Calls : last.calls[p].pc \in {"idle", "done"}

\* the calls that returned are forgotten
Settle ==
  /\ AllReturned
  /\ \E p \in Calls : last.calls[p].pc = "done"
  /\ last' = NoCalls(cache, store)
  /\ UNCHANGED <<cfg, store, cache>>

\* the key arrays of the calls in flight together: one key
OneKey == {<<k>> : k \in RawKeys}

\* the records created while calls are in flight together: the ones of one
\* primary key
OneRecord == {o \in Objects : o._id = KeyA}

CallsNext ==
  \/ \E p \in Calls : StartRead(p, OneKey)
  \/ \E p \in Calls : CacheGet(p)
  \/ \E p \in Calls : StoreFind(p)
  \/ \E p \in Calls : CacheSet(p)
  \/ \E p \in Calls : StartCreate(p, OneRecord)
  \/ \E p \in Calls : StartUpdate(p)
  \/ \E p \in Calls : StartRemove(p)
  \/ \E p \in Calls : HookRun(p)
  \/ Settle

CallsSpec == CallsInit /\ [][CallsNext]_vars

\* one call at a time, each taken step by step: reads of any key array,
\* writes of any record, caching enabled or not
StepsInit ==
  /\ cfg \in [options : Options, viaPlugin : {TRUE}]
  /\ store = {}
  /\ cache = EmptyCache
  /\ last = NoCalls(EmptyCache, {})

StepsNext ==
  \/ StartRead(1, SeqsUpTo(RawKeys, MaxKeys))
  \/ CacheGet(1)
  \/ StoreFind(1)
  \/ CacheSet(1)
  \/ StartCreate(1, Objects)
  \/ StartUpdate(1)
  \/ StartRemove(1)
  \/ HookRun(1)
  \/ Settle

StepsSpec == StepsInit /\ [][StepsNext]_vars

----------------------------------------------------------------------------
(* Reads by the lookup field 'id', which getManyBy turns into '_id' for the *)
(* store query                                                              *)

\* Model.getManyBy('id', keys) / cacheGetManyBy('id', keys)
GetManyById ==
  /\ Idle
  /\ \E keys \in SeqsUpTo(RawKeys, MaxKeys) :
       \E docs \in FindResults(store, KeyLookup("id"), ResolverKeys(Context, cache, keys)) :
         \E out \in {cacheGetManyBy(Context, cache, "id", keys, docs)} :
           /\ cache' = out.cache
           /\ last' = [NoOp EXCEPT !.kind = "read", !.field = "id", !.keys = keys,
                         !.result = out.result, !.redis = out.redis, !.finds = out.finds,
                         !.resolverKeys = out.resolverKeys, !.storedData = out.storedData,
                         !.emittedCacheMiss = out.emittedCacheMiss,
                         !.onCacheMissCalls = out.onCacheMissCalls,
                         !.emittedDataMiss = out.emittedDataMiss,
                         !.onDataMissCalls = out.onDataMissCalls,
                         !.thrown = out.thrown]
           /\ UNCHANGED <<cfg, store>>

IdNext ==
  \/ GetManyById
  \/ GetMany
  \/ ClearMany
  \/ Create
  \/ Update
  \/ Remove
  \/ Forget

IdSpec == Init /\ [][IdNext]_vars

----------------------------------------------------------------------------
(* Transport failures: redis.multi(batch).execAsync() or model.find rejects *)
(* and nothing in createCacheMethods catches it                             *)

\* which awaited call of a read rejects
Faults == {"none", "cache", "store"}

\* whether a read of keys on cache contents c makes the call that fault names
Applies(context, c, keys, fault) ==
  CASE fault = "cache" -> context.enable
    [] fault = "store" -> ~context.enable \/ Len(ResolverKeys(context, c, keys)) > 0
    [] OTHER           -> TRUE

\* variant of cacheGetManyByFault: a batched get that was rejected is sent
\* once more
cacheGetManyByFault_retry(context, c, cacheKey, keys, docs, fault) ==
  LET batchGet == [i \in 1..Len(keys) |-> <<"get", withCachePrefix(keys[i])>>]
      out      == cacheGetManyBy(context, c, cacheKey, keys, docs)
  IN  IF fault = "cache"
      THEN [out EXCEPT !.redis = <<batchGet>> \o out.redis]
      ELSE IF fault = "store"
      THEN Rejected(c, IF context.enable THEN <<batchGet>> ELSE <<>>,
                    << [field |-> KeyLookup(cacheKey), in |-> ResolverKeys(context, c, keys)] >>,
                    ResolverKeys(context, c, keys),
                    IF context.enable
                    THEN onBatchCacheMiss(context, ResolverKeys(context, c, keys))
                    ELSE NoReport,
                    NoReport)
      ELSE out

\* cacheGetManyBy when the call fault names rejects: the rejection of the
\* batched get ends the call at its first await, the rejection of
\* model.find ends getManyBy, and with it the call, after the missed keys
\* were reported and before anything is staged or written
cacheGetManyByFault(context, c, cacheKey, keys, docs, fault) ==
  LET batchGet == [i \in 1..Len(keys) |-> <<"get", withCachePrefix(keys[i])>>]
  IN  IF fault = "cache"
      THEN Rejected(c, <<batchGet>>, <<>>, <<>>, NoReport, NoReport)
      ELSE IF fault = "store"
      THEN Rejected(c, IF context.enable THEN <<batchGet>> ELSE <<>>,
                    << [field |-> KeyLookup(cacheKey), in |-> ResolverKeys(context, c, keys)] >>,
                    ResolverKeys(context, c, keys),
                    IF context.enable
                    THEN onBatchCacheMiss(context, ResolverKeys(context, c, keys))
                    ELSE NoReport,
                    NoReport)
      ELSE cacheGetManyBy(context, c, cacheKey, keys, docs)

\* the record of a read together with the call that rejected in it
WithFault(l, fault) ==
  [f \in DOMAIN l \cup {"fault"} |-> IF f = "fault" THEN fault ELSE l[f]]

\* Model.getManyBy(field, keys) / cacheGetManyBy(field, keys) with redis or
\* the store failing, or neither
GetManyByFault ==
  /\ Idle
  /\ \E field \in LookupFields, keys \in SeqsUpTo(RawKeys, MaxKeys), fault \in Faults :
       /\ Applies(Context, cache, keys, fault)
       /\ \E docs \in FindResults(store, KeyLookup(field), ResolverKeys(Context, cache, keys)) :
            \E out \in {cacheGetManyByFault(Context, cache, field, keys, docs, fault)} :
              /\ cache' = out.cache
              /\ last' = WithFault(
                           [NoOp EXCEPT !.kind = "read", !.field = field, !.keys = keys,
                              !.result = out.result, !.redis = out.redis, !.finds = out.finds,
                              !.resolverKeys = out.resolverKeys, !.storedData = out.storedData,
                              !.emittedCacheMiss = out.emittedCacheMiss,
                              !.onCacheMissCalls = out.onCacheMissCalls,
                              !.emittedDataMiss = out.emittedDataMiss,
                              !.onDataMissCalls = out.onDataMissCalls,
                              !.thrown = out.thrown], fault)
              /\ UNCHANGED <<cfg, store>>

TransportNext ==
  \/ GetManyByFault
  \/ SetMany
  \/ ClearMany
  \/ Create
  \/ Update
  \/ Remove
  \/ Forget

TransportSpec == Init /\ [][TransportNext]_vars

----------------------------------------------------------------------------
(* withCachePrefix on its own: the function applied to pairs of raw keys *)

\* the characters of the raw keys: a lowercase and an uppercase letter and the
\* separator
KeyChars == {"b", "B", ":"}

\* the raw keys, the empty string among them
KeyTexts == SeqsUpTo(KeyChars, MaxKeyLen)

PrefixInit ==
  /\ cfg \in [options : Options, viaPlugin : {FALSE}]
  /\ store = {}
  /\ cache = EmptyCache
  /\ last = NoOp

\* withCachePrefix(k1) and withCachePrefix(k2)
CallWithCachePrefix ==
  \E k1, k2 \in KeyTexts :
    /\ last' = [NoOp EXCEPT !.kind = "prefix", !.keys = <<k1, k2>>,
                  !.result = <<withCachePrefix(k1), withCachePrefix(k2)>>]
    /\ UNCHANGED <<cfg, store, cache>>

PrefixSpec == PrefixInit /\ [][CallWithCachePrefix]_vars

----------------------------------------------------------------------------
(* Vocabulary of the properties *)

Enabled == cfg.options.enable

IsRead(l) == l.kind = "read"

\* the record of the collection st whose field has the value key, or Null
StoreRecord(st, field, key) ==
  IF \E r \in st : r[field] = key THEN CHOOSE r \in st : r[field] = key ELSE Null

\* key addresses the record o: it is its primary key or its additional key
\* value
Addresses(o, key) == o._id = key \/ (o.slug # Absent /\ o.slug = key)

\* the keys a read handed to the store
LookedUp(l) == IF l.finds = <<>> THEN <<>> ELSE l.finds[1].in

\* the observer calls that report keys for this model
Reports(keys) == [i \in 1..Len(keys) |-> <<name, keys[i]>>]

\* c without the entries of the raw keys
Without(c, keys) ==
  [k \in DOMAIN c \ {withCachePrefix(keys[i]) : i \in 1..Len(keys)} |-> c[k]]

----------------------------------------------------------------------------
ResolverCalled(l) == IsRead(l) /\ (~Enabled \/ l.emittedCacheMiss # <<>>)

C2_ResolverInOrder ==
  ResolverCalled(last) =>
    /\ Len(last.finds) = 1
    /\ last.finds[1] = [field |-> last.field, in |-> last.resolverKeys]
    /\ last.storedData =
         [i \in 1..Len(last.resolverKeys) |-> StoreRecord(store, last.field, last.resolverKeys[i])]

\* the resolver was asked for an absent key first and a stored one second,
\* while the store holds two records
C2_Witness ==
  /\ ResolverCalled(last)
  /\ Len(last.resolverKeys) = 2
  /\ last.storedData[1] = Null
  /\ last.storedData[2] # Null
  /\ Cardinality(store) = 2

(* C3: the data-miss events of a read are, in order, the looked-up positions  *)
(* whose key the store does not have (one event per position), they reach a  *)
(* configured observer as (model name, key), and no key served from the      *)
(* cache gets one.                                                           *)
C3_DataMissPerPosition ==
  IsRead(last) =>
    /\ last.emittedDataMiss =
         SelectSeq(LookedUp(last), LAMBDA k : StoreRecord(store, last.field, k) = Null)
    /\ Context.onDataMiss => last.onDataMissCalls = Reports(last.emittedDataMiss)
    /\ Enabled => \A k \in Range(last.emittedDataMiss) : k \in Range(last.emittedCacheMiss)

\* a key asked for twice and absent from the store is reported twice
C3_Witness ==
  /\ IsRead(last)
  /\ Len(last.keys) = 2
  /\ last.emittedDataMiss = <<last.keys[1], last.keys[1]>>
  /\ last.onDataMissCalls = Reports(last.emittedDataMiss)

(* C4: with onDataMiss configured on the plugin, a read through the plugin of *)
(* a key absent from cache and store calls onDataMiss(modelName, key).       *)
C4_PluginReportsDataMiss ==
  (cfg.viaPlugin /\ cfg.options.onDataMiss /\ IsRead(last)) =>
    \A k \in Range(LookedUp(last)) :
      StoreRecord(store, last.field, k) = Null => <<name, k>> \in Range(last.onDataMissCalls)

C6_DisabledTransparent ==
  [][(~Enabled /\ last'.kind \in {"read", "set", "save", "update"}) =>
       /\ last'.redis = <<>>
       /\ cache' = cache
       /\ IsRead(last') =>
            /\ LookedUp(last') = last'.keys
            /\ last'.result =
                 [i \in 1..Len(last'.keys) |-> StoreRecord(store, last'.field, last'.keys[i])]]_vars

\* a disabled read that the store answered
C6_Witness ==
  /\ ~Enabled
  /\ IsRead(last)
  /\ \E i \in 1..Len(last.keys) : last.result[i] # Null
  /\ last.redis = <<>>

Filled(l) == {k \in Range(l.emittedCacheMiss) : k \notin Range(l.emittedDataMiss)}

C10_FillWritesBothSlots ==
  (Enabled /\ cfg.options.additionalCacheKeys = <<"slug">> /\ IsRead(last)) =>
    \A i \in 1..Len(last.storedData) :
      LET r == last.storedData[i]
      IN  r # Null =>
            /\ withCachePrefix(r._id) \in DOMAIN cache
            /\ cache[withCachePrefix(r._id)] = JSONstringify(r)
            /\ r.slug # Absent =>
                 /\ withCachePrefix(r.slug) \in DOMAIN cache
                 /\ cache[withCachePrefix(r.slug)] = JSONstringify(r)

(* C11: absent records are never cached.  With caching enabled, a key that a *)
(* read missed in the cache and the store did not resolve has null at its    *)
(* result positions, no set command of the read names it and no entry is at  *)
(* its cache key afterwards; the directly following read of the same field   *)
(* and keys hands it to the store again and emits a cache-miss and a         *)
(* data-miss event for it again.                                             *)
\* the keys the read l missed in the cache and the store did not resolve
Unresolved(l) == {k \in Range(l.emittedCacheMiss) : k \in Range(l.emittedDataMiss)}

\* the cache keys the read l sent a set command for
Written(l) == {l.redis[b][i][2] : <<b, i>> \in {p \in (1..Len(l.redis)) \X (1..3 * MaxKeys) :
                                                 /\ p[2] <= Len(l.redis[p[1]])
                                                 /\ l.redis[p[1]][p[2]][1] = "set"}}

C11_AbsentNeverCached ==
  (Enabled /\ IsRead(last)) =>
    /\ \A i \in 1..Len(last.keys) :
         last.keys[i] \in Unresolved(last) =>
           /\ last.result[i] = Null
           /\ withCachePrefix(last.keys[i]) \notin Written(last)
           /\ withCachePrefix(last.keys[i]) \notin DOMAIN cache
    /\ last.prev # <<>> =>
         \A k \in Unresolved(last.prev[1]) :
           /\ k \in Range(LookedUp(last))
           /\ k \in Range(last.emittedCacheMiss)
           /\ k \in Range(last.emittedDataMiss)

(* C12: with caching enabled, setMany(entries) sends the cache one batch that *)
(* holds, in input order, a set of withCachePrefix(key) to the JSON text of  *)
(* the value for every entry with a non-null value and nothing for the       *)
(* others; with no such entry it sends nothing; it does not throw.           *)
\* the entries of a set operation
EntriesOf(l) == [i \in 1..Len(l.keys) |-> <<l.keys[i], l.result[i]>>]

C12_SetManyOneBatch ==
  (Enabled /\ last.kind = "set") =>
    LET kept == SelectSeq(EntriesOf(last), LAMBDA e : e[2] # Null)
    IN  /\ last.redis =
             (IF kept = <<>> THEN <<>>
              ELSE << [i \in 1..Len(kept) |->
                         <<"set", withCachePrefix(kept[i][1]), JSONstringify(kept[i][2])>>] >>)
        /\ ~last.thrown

\* a null-valued entry followed by a record: one batch with the one set
C12_Witness ==
  /\ Enabled
  /\ last.kind = "set"
  /\ Len(last.keys) = 2
  /\ last.result[1] = Null
  /\ last.result[2] # Null
  /\ Len(last.redis) = 1
  /\ Len(last.redis[1]) = 1

(* C13: write synchronisation by the hooks.  With caching enabled, after a    *)
(* create or a findOneAndUpdate of a record and its post hook, the cache     *)
(* holds the JSON text of the record as the store now has it under           *)
(* withCachePrefix of its primary key and of each of its additional key      *)
(* values.                                                                   *)
\* the cache c holds the JSON text of the record r in all of r's slots
InAllSlots(c, r) ==
  /\ withCachePrefix(r._id) \in DOMAIN c
  /\ c[withCachePrefix(r._id)] = JSONstringify(r)
  /\ \A j \in 1..Len(cfg.options.additionalCacheKeys) :
       LET value == r[cfg.options.additionalCacheKeys[j]]
       IN  value # Absent =>
             /\ withCachePrefix(value) \in DOMAIN c
             /\ c[withCachePrefix(value)] = JSONstringify(r)

C13_HookWritesStored ==
  (Enabled /\ last.kind \in {"save", "update"} /\ last.doc # Null) =>
    /\ StoreRecord(store, "_id", last.doc._id) # Null
    /\ InAllSlots(cache, StoreRecord(store, "_id", last.doc._id))

(* C14: removal synchronisation by the hooks.  With caching enabled, after a  *)
(* findOneAndRemove / findOneAndDelete of a record and its post hook, the    *)
(* cache has no entry under withCachePrefix of the record's primary key nor  *)
(* of any of its additional key values, and a read that follows, of the      *)
(* primary key by _id or of an additional key value by its field, returns    *)
(* null.                                                                     *)
\* what a read of the one key by the field returns in the current state
ReadNow(field, key) ==
  {cacheGetManyBy(Context, cache, field, <<key>>, docs).result :
     docs \in FindResults(store, KeyLookup(field), ResolverKeys(Context, cache, <<key>>))}

C14_HookRemoves ==
  (Enabled /\ last.kind = "remove" /\ last.doc # Null) =>
    /\ withCachePrefix(last.doc._id) \notin DOMAIN cache
    /\ ReadNow("_id", last.doc._id) = {<<Null>>}
    /\ \A j \in 1..Len(cfg.options.additionalCacheKeys) :
         LET field == cfg.options.additionalCacheKeys[j]
         IN  last.doc[field] # Absent =>
               /\ withCachePrefix(last.doc[field]) \notin DOMAIN cache
               /\ ReadNow(field, last.doc[field]) = {<<Null>>}

\* a record with an additional key value was removed: the hook sent one del
\* for each of its two slots
C14_Witness ==
  /\ Enabled
  /\ last.kind = "remove"
  /\ last.doc # Null
  /\ cfg.options.additionalCacheKeys = <<"slug">>
  /\ last.doc.slug # Absent
  /\ last.redis = << << <<"del", withCachePrefix(last.doc._id)>> >>,
                     << <<"del", withCachePrefix(last.doc.slug)>> >> >>

(* C15: in every state between operations, the entries present in the cache   *)
(* under the cache keys of one record of the store (its primary key and its  *)
(* additional key values) that hold a text of that record hold the same      *)
(* text.                                                                     *)
\* the cache keys of the slots of the record r
SlotsOf(r) ==
  {withCachePrefix(r._id)}
    \cup {withCachePrefix(r[cfg.options.additionalCacheKeys[j]]) :
            j \in {i \in 1..Len(cfg.options.additionalCacheKeys) :
                     r[cfg.options.additionalCacheKeys[i]] # Absent}}

\* the slots of r that are present in the cache and hold a text of r
PresentSlots(r) == {k \in SlotsOf(r) \cap DOMAIN cache : JSONparse(cache[k])._id = r._id}

C15_SlotsAgree ==
  \A r \in store : \A k1, k2 \in PresentSlots(r) : cache[k1] = cache[k2]

(* C16: withCachePrefix(key) is the lowercased model name, a colon and the    *)
(* key as given (the empty key included, no letter of the key changed); two  *)
(* different keys get different cache keys; cache and store are not touched. *)
C16_WithCachePrefix ==
  last.kind = "prefix" =>
    /\ \A i \in 1..2 : last.result[i] = <<"e", "n", "t", "r", "y", ":">> \o last.keys[i]
    /\ last.keys[1] # last.keys[2] => last.result[1] # last.result[2]
    /\ cache = EmptyCache
    /\ store = {}

\* the empty key and a key that differs from another only by the case of a
\* letter
C16_Witness ==
  /\ last.kind = "prefix"
  /\ last.keys = << <<>>, <<"B">> >>
  /\ last.result = << <<"e", "n", "t", "r", "y", ":">>, <<"e", "n", "t", "r", "y", ":", "B">> >>

(* C17: the single-key and per-field statics are thin wrappers.  From the     *)
(* same cache and store, get(k), getBy(f, k) and getBy<F>(k) return the first *)
(* element of getManyBy on the one-key sequence (field _id for get) and have  *)
(* its cache commands, store query, miss events and cache contents; with an  *)
(* array they, getMany, getManyBy and getBy<Fs> are getManyBy on the array   *)
(* (field _id for get and getMany).                                          *)
C17_ThinWrappers ==
  [][last'.kind \in {"get", "getBy", "getMany", "getManyBy", "getByField", "getByFields"} =>
       LET field == IF last'.kind \in {"get", "getMany"} THEN "_id" ELSE last'.field
           keys  == IF last'.keys.array THEN last'.keys.value ELSE <<last'.keys.value>>
       IN  \E docs \in FindResults(store, field, ResolverKeys(Context, cache, keys)) :
             LET batched == cacheGetManyBy(Context, cache, field, keys, docs)
             IN  /\ last'.result = (IF last'.keys.array THEN batched.result ELSE batched.result[1])
                 /\ last'.redis = batched.redis
                 /\ last'.finds = batched.finds
                 /\ last'.emittedCacheMiss = batched.emittedCacheMiss
                 /\ last'.onCacheMissCalls = batched.onCacheMissCalls
                 /\ last'.emittedDataMiss = batched.emittedDataMiss
                 /\ last'.onDataMissCalls = batched.onDataMissCalls
                 /\ cache' = batched.cache]_vars

\* getBySlug(k) took the record from the store and filled the cache
C17_Witness ==
  /\ last.kind = "getByField"
  /\ ~last.keys.array
  /\ Enabled
  /\ last.result # Null
  /\ Len(last.finds) = 1
  /\ Len(last.redis) = 2

(* C18: observer failures are isolated.  A read whose onCacheMiss or          *)
(* onDataMiss observer throws does not fail: it has the result, the store    *)
(* query and the cache contents of the same read made with observers that    *)
(* do not throw.                                                             *)
\* the context of this configuration with observers that do not throw
QuietContext == [Context EXCEPT !.onCacheMissThrows = FALSE, !.onDataMissThrows = FALSE]

C18_ObserverIsolated ==
  [][IsRead(last') =>
       \E docs \in FindResults(store, KeyLookup(last'.field),
                               ResolverKeys(QuietContext, cache, last'.keys)) :
         LET quiet == cacheGetManyBy(QuietContext, cache, last'.field, last'.keys, docs)
         IN  /\ ~last'.thrown
             /\ last'.result = quiet.result
             /\ last'.finds = quiet.finds
             /\ cache' = quiet.cache]_vars

(* C19: malformed cache payload.  An enabled read that asks for a key whose   *)
(* cache entry is not JSON fails: after its one batch of gets it sends the   *)
(* cache nothing, does not query the store, emits no miss event and leaves   *)
(* the cache as it was, the bad entry included.                              *)
\* the read l asks for a key whose entry in the cache c is not JSON
AsksMalformed(l, c) ==
  \E i \in 1..Len(l.keys) :
    /\ withCachePrefix(l.keys[i]) \in DOMAIN c
    /\ ~ValidJSON(c[withCachePrefix(l.keys[i])])

C19_MalformedPayload ==
  [][(Enabled /\ IsRead(last') /\ AsksMalformed(last', cache)) =>
       /\ last'.thrown
       /\ last'.result = <<>>
       /\ last'.redis = << [i \in 1..Len(last'.keys) |-> <<"get", withCachePrefix(last'.keys[i])>>] >>
       /\ last'.finds = <<>>
       /\ last'.emittedCacheMiss = <<>>
       /\ last'.onCacheMissCalls = <<>>
       /\ last'.emittedDataMiss = <<>>
       /\ last'.onDataMissCalls = <<>>
       /\ cache' = cache]_vars

(* C20: round-trip bound.  An enabled read sends the cache one batch of gets  *)
(* and after it at most one batch, of sets only, and queries the store at    *)
(* most once; when every key has a cache entry it sends the one batch of     *)
(* gets only, does not query the store and leaves the cache as it is.        *)
C20_RoundTrips ==
  [][(Enabled /\ IsRead(last')) =>
       /\ Len(last'.redis) \in {1, 2}
       /\ last'.redis[1] = [i \in 1..Len(last'.keys) |-> <<"get", withCachePrefix(last'.keys[i])>>]
       /\ Len(last'.redis) = 2 =>
            /\ last'.redis[2] # <<>>
            /\ \A i \in 1..Len(last'.redis[2]) : last'.redis[2][i][1] = "set"
       /\ Len(last'.finds) <= 1
       /\ (\A i \in 1..Len(last'.keys) : withCachePrefix(last'.keys[i]) \in DOMAIN cache) =>
            /\ Len(last'.redis) = 1
            /\ last'.finds = <<>>
            /\ cache' = cache]_vars

\* a read of a cached key and a key taken from the store: one batch of two
\* gets, one store query, one batch with the sets of the record's two slots
C20_Witness ==
  /\ Enabled
  /\ IsRead(last)
  /\ Len(last.keys) = 2
  /\ Len(last.emittedCacheMiss) = 1
  /\ Len(last.finds) = 1
  /\ Len(last.redis) = 2
  /\ Len(last.redis[2]) = 2

(* C21: merge precedence.  In an enabled read every key that has a cache      *)
(* entry when the read starts is answered with the parsed text of that entry, *)
(* whatever the store resolves for the other keys of the call.               *)
C21_CacheHitWins ==
  [][(Enabled /\ IsRead(last')) =>
       \A i \in 1..Len(last'.keys) :
         withCachePrefix(last'.keys[i]) \in DOMAIN cache =>
           last'.result[i] = JSONparse(cache[withCachePrefix(last'.keys[i])])]_vars

(* C22: in an enabled read every key that missed the cache and that the store *)
(* has no record for under the looked-up field (a data-miss event is emitted *)
(* for it) has null at each of its result positions.                         *)
C22_DataMissIsNull ==
  (Enabled /\ IsRead(last)) =>
    \A i \in 1..Len(last.keys) :
      (/\ last.keys[i] \in Range(last.emittedCacheMiss)
       /\ last.keys[i] \in Range(last.emittedDataMiss)
       /\ StoreRecord(store, last.field, last.keys[i]) = Null) =>
        last.result[i] = Null

(* C23: null-alias guard.  No operation sends the cache a command for the     *)
(* cache key built from the text "undefined" (the additional key field of a  *)
(* record that has none), and no entry is ever under that key.               *)
\* the cache key of a field value that is not there
UndefinedKey == toLowerCase(name) \o <<":">> \o <<"u", "n", "d", "e", "f", "i", "n", "e", "d">>

C23_NoUndefinedAlias ==
  /\ UndefinedKey \notin DOMAIN cache
  /\ \A b \in 1..Len(last.redis) :
       \A i \in 1..Len(last.redis[b]) : last.redis[b][i][2] # UndefinedKey

(* C24: field-faithful results.  Every non-null result at position i of a     *)
(* read by a field is a record whose value of that field is keys[i].         *)
C24_FieldFaithful ==
  IsRead(last) =>
    \A i \in 1..Len(last.keys) :
      last.result[i] # Null => last.result[i][last.field] = last.keys[i]

(* C25: with no additional cache key declared and reads by the primary key    *)
(* only, every cache entry is under withCachePrefix of the primary key of    *)
(* the record whose text it holds, a record that was saved or resolved.      *)
C25_PrimarySlotOnly ==
  \A k \in DOMAIN cache :
    /\ JSONparse(cache[k]) \in Objects
    /\ k = withCachePrefix(JSONparse(cache[k])._id)

\* two records that have a slug are cached after a read, each in one slot
C25_Witness ==
  /\ Enabled
  /\ IsRead(last)
  /\ Len(last.emittedCacheMiss) = 2
  /\ Cardinality(DOMAIN cache) = 2
  /\ \A k \in DOMAIN cache : JSONparse(cache[k]).slug # Absent

----------------------------------------------------------------------------
(* C26: atomic alias visibility.  In every state a concurrent reader can see, *)
(* a record that a create/update hook or a cache-aside fill writes is under   *)
(* all of its cache keys (primary key and every additional key value) or     *)
(* under none of them: its slots are written by one batch.                   *)

\* the cache keys of a record: its primary key and the additional key
\* values it has
RecordSlots(r) == {withCachePrefix(k) : k \in Range(HookSlots(cfg.options, r)) \ {Absent}}

\* whether the entry at cache key k is the text of record r
Holds(k, r) == k \in DOMAIN cache /\ cache[k] = JSONstringify(toObject(r))

\* the records call c has started to write, or has written
WrittenBy(c) ==
  IF c.op \in {"create", "update"} /\ c.doc # Null /\ c.slot > 1 THEN {c.doc}
  ELSE IF c.op = "read" /\ c.pc = "done" THEN Range(FilterNonNull(c.storedData))
  ELSE {}

C26_AtomicAliasVisibility ==
  \A p \in Calls : \A r \in WrittenBy(last.calls[p]) :
    \/ \A k \in RecordSlots(r) : Holds(k, r)
    \/ \A k \in RecordSlots(r) : ~Holds(k, r)

----------------------------------------------------------------------------
(* C27: uncoordinated concurrent fills are safe.  When two getManyBy calls    *)
(* for the same field and the same key, which has no cache entry when the    *)
(* first of them starts, have both returned, whatever the order of their     *)
(* steps: the store is as it was, both calls returned the store's record     *)
(* under that field and key (null when there is none), and the cache is      *)
(* what one such call alone leaves from the cache the first one started on.  *)
(* Nothing keeps the second call from the store while the first is in        *)
(* flight: both may query it and both may write the cache.                   *)

\* whether calls 1 and 2 are reads of one field and one key that had no
\* cache entry when the first of them started, and both have returned
SameColdRead ==
  /\ \A p \in Calls : last.calls[p].op = "read" /\ last.calls[p].pc = "done"
  /\ last.calls[1].field = last.calls[2].field
  /\ last.calls[1].keys = last.calls[2].keys
  /\ Len(last.calls[1].keys) = 1
  /\ withCachePrefix(last.calls[1].keys[1]) \notin DOMAIN last.cache0

\* what one call alone leaves of the cache c
SingleCall(c, field, keys) ==
  cacheGetManyBy(Context, c, field, keys,
                 CHOOSE docs \in FindResults(store, KeyLookup(field), ResolverKeys(Context, c, keys)) : TRUE)

\* whether call p logged an event with this tag
Did(p, tag) == \E i \in 1..Len(last.log) : last.log[i].call = p /\ last.log[i].tag = tag

C27_ConcurrentFillsSafe ==
  SameColdRead =>
    /\ store = last.store0
    /\ \A p \in Calls :
         last.calls[p].result = <<StoreRecord(store, last.calls[p].field, last.calls[p].keys[1])>>
    /\ cache = SingleCall(last.cache0, last.calls[1].field, last.calls[1].keys).cache

\* both calls queried the store and both wrote the cache
C27_Witness ==
  /\ SameColdRead
  /\ \A p \in Calls : Did(p, "find") /\ Did(p, "set")

----------------------------------------------------------------------------
(* C28 as stated: no stale fill under interleaving.  When a read of a record  *)
(* by its primary key that queried the store and an update or remove hook     *)
(* for the same record, handed the record as the store then had it, have     *)
(* both returned, in whatever order their steps ran, the cache entry at the  *)
(* record's key, if any, is the text of the record as the store has it now,  *)
(* and there is no entry when the record was removed.                        *)

\* whether call r is a read by primary key of the record that call h, an
\* update or remove hook, was handed, and both have returned
ReadMeetsHook(r, h) ==
  /\ r # h
  /\ last.calls[r].op = "read" /\ last.calls[r].pc = "done"
  /\ last.calls[r].field = "_id" /\ Len(last.calls[r].keys) = 1
  /\ Did(r, "find")
  /\ last.calls[h].op \in {"update", "remove"} /\ last.calls[h].pc = "done"
  /\ last.calls[h].doc # Null
  /\ last.calls[h].doc._id = last.calls[r].keys[1]

\* whether the hook of call h was handed the record as its store write left it
HandedCurrent(h) ==
  last.calls[h].op = "remove" \/ toObject(last.calls[h].doc) \in store

\* the cache key calls r and h meet at
MeetKey(r) == withCachePrefix(last.calls[r].keys[1])

C28_NoStaleFill ==
  \A r, h \in Calls :
    (ReadMeetsHook(r, h) /\ HandedCurrent(h)) =>
      IF StoreRecord(store, "_id", last.calls[r].keys[1]) = Null
      THEN MeetKey(r) \notin DOMAIN cache
      ELSE MeetKey(r) \in DOMAIN cache =>
             cache[MeetKey(r)] = JSONstringify(StoreRecord(store, "_id", last.calls[r].keys[1]))

(* C28, amended: the last cache command wins.  When such a read and such a   *)
(* hook have both returned, the hook has sent a command for the record's     *)
(* key, and the entry at that key is what the last command for it left: the  *)
(* text of the record as the read's store query found it when the read's     *)
(* batch of sets ran after the hook's command, and otherwise the text of the *)
(* document the hook was handed (update) or nothing (remove).  When the      *)
(* read queried the store after the hook's store write and the hook was      *)
(* handed the record as that write left it, the entry is the record's        *)
(* current state, or absent after a remove.                                  *)

\* whether log entry e is a batch with a command for cache key k
OnKey(e, k) ==
  /\ e.tag \in {"set", "del"}
  /\ \E j \in 1..Len(e.arg) : e.arg[j][2] = k

\* the positions in the log of the commands of call p for cache key k
CommandsOn(p, k) == {i \in 1..Len(last.log) : last.log[i].call = p /\ OnKey(last.log[i], k)}

\* the position in the log of the event of call p with this tag
Pos(p, tag) == CHOOSE i \in 1..Len(last.log) : last.log[i].call = p /\ last.log[i].tag = tag

\* whether the last command for cache key k is one of call p
WroteLast(p, k) ==
  /\ CommandsOn(p, k) # {}
  /\ \A q \in Calls : \A i \in CommandsOn(q, k) : \E j \in CommandsOn(p, k) : i <= j

\* what the hook of call h leaves at the cache key k of its document
HookLeaves(h, k) ==
  IF last.calls[h].op = "remove" THEN k \notin DOMAIN cache
  ELSE k \in DOMAIN cache /\ cache[k] = JSONstringify(toObject(last.calls[h].doc))

C28_LastCommandWins ==
  \A r, h \in Calls :
    ReadMeetsHook(r, h) =>
      /\ CommandsOn(h, MeetKey(r)) # {}
      /\ IF WroteLast(r, MeetKey(r))
         THEN /\ MeetKey(r) \in DOMAIN cache
              /\ cache[MeetKey(r)] = JSONstringify(last.calls[r].storedData[1])
         ELSE HookLeaves(h, MeetKey(r))
      /\ (HandedCurrent(h) /\ Pos(r, "find") > Pos(h, "store")) =>
           IF StoreRecord(store, "_id", last.calls[r].keys[1]) = Null
           THEN MeetKey(r) \notin DOMAIN cache
           ELSE /\ MeetKey(r) \in DOMAIN cache
                /\ cache[MeetKey(r)] = JSONstringify(StoreRecord(store, "_id", last.calls[r].keys[1]))

\* the read wrote last what it had found before the hook's store write, and
\* the entry is not the record's current state
C28_Witness ==
  \E r, h \in Calls :
    /\ ReadMeetsHook(r, h) /\ HandedCurrent(h)
    /\ WroteLast(r, MeetKey(r))
    /\ Pos(r, "find") < Pos(h, "store")
    /\ cache[MeetKey(r)] = JSONstringify(last.calls[r].storedData[1])
    /\ last.calls[r].storedData[1] \notin store

----------------------------------------------------------------------------
(* C29: cache-store coherence under sequential use.  With caching enabled on  *)
(* a plugged-in model, every operation (create, update, remove, read,        *)
(* clear, one at a time) keeps the cache coherent with the store: every      *)
(* cache entry is the text of a record the store now has, under the cache    *)
(* key of that record's primary key or of its value of a looked-up field;    *)
(* so there is no entry under a former alias value.  (The key built from the *)
(* text "undefined" is left to C23, the update whose hook is handed the      *)
(* document as it was before the update to C13.)                             *)

\* whether cache key k addresses record r: by its primary key or by the
\* value it has of a field reads look up
AddressedBy(k, r) ==
  \E field \in LookupFields : r[field] # Absent /\ k = withCachePrefix(r[field])

\* whether the cache c is coherent with the store st
Coherent(c, st) ==
  \A k \in DOMAIN c \ {UndefinedKey} :
    \E r \in st : AddressedBy(k, r) /\ c[k] = JSONstringify(r)

\* whether the operation l is an update whose hook was handed a document
\* that is not the record the store st has
HandedOld(l, st) == l.kind = "update" /\ l.doc # Null /\ toObject(l.doc) \notin st

C29_CacheStoreCoherent ==
  [][(Enabled /\ cfg.viaPlugin /\ Coherent(cache, store) /\ ~HandedOld(last', store'))
       => Coherent(cache', store')]_vars

----------------------------------------------------------------------------
(* C30: step ordering inside one enabled getManyBy call.  Of what a call      *)
(* does, the batched cache read comes first; its cache-miss events, one per  *)
(* missed key, come after the cache read and before the store query; its     *)
(* data-miss events come after the store query; its batch of sets comes      *)
(* after the store query and before the return; the store query never comes  *)
(* before the cache read.                                                    *)

\* the positions in the log of the events of call p with this tag
Events(p, tag) == {i \in 1..Len(last.log) : last.log[i].call = p /\ last.log[i].tag = tag}

\* whether every position of is is before every position of js
Before(is, js) == \A i \in is : \A j \in js : i < j

\* the keys call p reported as missed in the cache, in the order of the events
ReportedMissed(p) ==
  LET events == SelectSeq(last.log, LAMBDA e : e.call = p /\ e.tag = "cacheMiss")
  IN  [i \in 1..Len(events) |-> events[i].arg]

C30_StepOrder ==
  \A p \in Calls :
    (Enabled /\ last.calls[p].op = "read") =>
      /\ Cardinality(Events(p, "get")) <= 1
      /\ \A i \in 1..Len(last.log) : last.log[i].call = p => \E g \in Events(p, "get") : g <= i
      /\ Before(Events(p, "get"), Events(p, "cacheMiss"))
      /\ Before(Events(p, "cacheMiss"), Events(p, "find"))
      /\ Events(p, "find") # {} => ReportedMissed(p) = last.calls[p].missed
      /\ Before(Events(p, "get"), Events(p, "find"))
      /\ Events(p, "dataMiss") # {} => Events(p, "find") # {}
      /\ Before(Events(p, "find"), Events(p, "dataMiss"))
      /\ Events(p, "set") # {} => Events(p, "find") # {} /\ Events(p, "return") # {}
      /\ Before(Events(p, "find"), Events(p, "set"))
      /\ Before(Events(p, "set"), Events(p, "return"))
      /\ Before(Events(p, "dataMiss"), Events(p, "set"))

\* a call that missed two keys, resolved one of them and returned
C30_Witness ==
  /\ Enabled
  /\ last.calls[1].op = "read" /\ last.calls[1].pc = "done"
  /\ Cardinality(Events(1, "cacheMiss")) = 2
  /\ Cardinality(Events(1, "dataMiss")) = 1
  /\ Events(1, "set") # {}

----------------------------------------------------------------------------
(* C32: hooks tolerate an absent document.  With caching enabled, the post   *)
(* hook of an update or a removal that matched no record, and so is handed   *)
(* no document, completes without error and sends the cache no command.      *)

C32_AbsentDocumentTolerated ==
  (Enabled /\ last.kind \in {"update", "remove"} /\ last.doc = Null) =>
    /\ ~last.thrown
    /\ last.redis = <<>>

----------------------------------------------------------------------------
(* C33: the lookup field 'id' is an alias of '_id'.  From every cache and     *)
(* store, a read by 'id' of a key sequence returns the results and leaves    *)
(* the cache entries of the read by '_id' of the same keys.                  *)

C33_IdIsPrimaryKey ==
  [][(last'.kind = "read" /\ last'.field = "id") =>
       \E docs \in FindResults(store, "_id", ResolverKeys(Context, cache, last'.keys)) :
         /\ last'.result = cacheGetManyBy(Context, cache, "_id", last'.keys, docs).result
         /\ cache' = cacheGetManyBy(Context, cache, "_id", last'.keys, docs).cache]_vars

----------------------------------------------------------------------------
(* C31: transport errors propagate without retry and without partial cache   *)
(* effects.  A read whose batched get is rejected fails, having sent that    *)
(* one batch only, queried the store not at all and emitted no miss event;   *)
(* a read whose store query is rejected fails, having queried the store      *)
(* once, sent the cache no set and emitted no data-miss event; either way    *)
(* the cache contents are as they were.                                      *)

\* whether the operation l is a read in which the call fault names rejected
Failed(l, fault) == l.kind = "read" /\ l.fault = fault

\* whether every command of every batch of l is a get
GetsOnly(l) ==
  \A b \in 1..Len(l.redis) : \A i \in 1..Len(l.redis[b]) : l.redis[b][i][1] = "get"

C31_TransportErrorsPropagate ==
  [][/\ Failed(last', "cache") =>
          /\ last'.thrown
          /\ Len(last'.redis) = 1 /\ GetsOnly(last')
          /\ last'.finds = <<>>
          /\ last'.emittedCacheMiss = <<>> /\ last'.emittedDataMiss = <<>>
          /\ cache' = cache
     /\ Failed(last', "store") =>
          /\ last'.thrown
          /\ Len(last'.finds) = 1
          /\ Len(last'.redis) <= 1 /\ GetsOnly(last')
          /\ last'.emittedDataMiss = <<>>
          /\ cache' = cache]_vars

\* a read of two keys, one of them a hit, whose store query was rejected
C31_Witness ==
  /\ Enabled
  /\ Failed(last, "store")
  /\ Len(last.keys) = 2
  /\ Len(last.emittedCacheMiss) = 1
  /\ cache # EmptyCache

====
